---- MODULE Spec2Model ----
(***************************************************************************)
(* Contact directory: the Contact record, the localStorage persistence,    *)
(* the ContactManager (canonical collection, filtered view, CRUD, search)  *)
(* and the search box of the page that applyCurrentFilter reads.           *)
(*                                                                         *)
(* A JavaScript string is a sequence of one-character strings, so that     *)
(* toLowerCase, trim and includes are computed character by character.     *)
(* A Contact object lives in the heap under a reference; the canonical     *)
(* collection and the filtered view are arrays of references.              *)
(***************************************************************************)
EXTENDS Integers, Sequences, FiniteSets, TLC

\* ------------------------------------------------------------------ bounds
\* Number of identifiers generateId hands out in one behaviour.
MaxIds == 2
\* Largest value of the millisecond clock.
MaxTime == 1
\* Number of times the store refuses a setItem or a removeItem in one behaviour.
MaxFailures == 1

\* ------------------------------------------------------------ JS strings
\* The value undefined of an optional field (no string is equal to it).
Undefined == <<"undefined">>
\* A key that JSON.stringify left out of the stored object.
Missing == <<"missing">>
\* No object: the undefined that find returns.
None == 0
\* A call without a data argument.
NoData == [k \in {} |-> <<>>]

\* toLowerCase that leaves every character as it is.
LowerCharIdentity(c) == c

LowerChar(c) ==
    CASE c = "A" -> "a" [] c = "B" -> "b" [] c = "C" -> "c" [] c = "D" -> "d"
      [] c = "L" -> "l" [] c = "M" -> "m" [] c = "O" -> "o" [] c = "T" -> "t"
      [] c = "X" -> "x" [] OTHER -> c

toLowerCase(s) == [i \in 1..Len(s) |-> LowerChar(s[i])]

trim(s) ==
    LET keep == {i \in 1..Len(s) : s[i] # " "}
    IN  IF keep = {} THEN <<>>
        ELSE SubSeq(s, CHOOSE i \in keep : \A j \in keep : i <= j,
                       CHOOSE i \in keep : \A j \in keep : j <= i)

includes(s, t) == \E i \in 1..(Len(s) - Len(t) + 1) : SubSeq(s, i, i + Len(t) - 1) = t

\* Truthiness of a string-or-undefined value: "" and undefined are falsy.
Truthy(v) == v # Undefined /\ v # <<>>

Range(seq) == {seq[i] : i \in 1..Len(seq)}

\* --------------------------------------------------------------- inputs
\* The data objects handed to addContact.
AddInputs ==
    { [firstName |-> <<"a">>, lastName |-> <<"b">>, email |-> <<"a">>,
       phone |-> Undefined, address |-> Undefined],
      [firstName |-> <<"B">>, lastName |-> <<>>, email |-> <<"A">>,
       phone |-> <<"1">>, address |-> <<"x">>],
      [firstName |-> <<>>, lastName |-> <<"a">>, email |-> <<>>,
       phone |-> Undefined, address |-> Undefined] }

\* The partial objects handed to updateContact.
UpdateInputs ==
    { [email |-> <<>>],
      [email |-> <<"A">>] }

\* Partial objects that carry the email or other fields.
PartialInputs ==
    { [email |-> <<"A">>],
      [lastName |-> <<>>, phone |-> <<"1">>] }

\* The strings handed to searchContacts or typed into the search box.
Queries == { <<>>, <<" ">>, <<"A">> }

\* Strings handed to searchContacts with spaces before or after the text.
PaddedQueries == { <<>>, <<" ">>, <<"A", " ">>, <<" ", "b">>, <<"A", " ", "b", " ">> }

\* The two contacts and the two queries of the example session.
Ada ==
    [firstName |-> <<"A", "d", "a">>, lastName |-> <<"L", "o", "v", "e", "l", "a", "c", "e">>,
     email |-> <<"a", "d", "a", "@", "x", ".", "c", "o", "m">>,
     phone |-> Undefined, address |-> Undefined]

Al ==
    [firstName |-> <<"A", "l">>, lastName |-> <<"T", "u", "r", "i", "n", "g">>,
     email |-> <<"A", "D", "A", "@", "X", ".", "C", "O", "M">>,
     phone |-> Undefined, address |-> Undefined]

QueryTuring == <<"t", "u", "r", "i", "n", "g">>

QueryAda == <<"a", "d", "a">>

\* The identifiers handed to updateContact and deleteContact.
Ids == 1..(MaxIds + 1)

\* ---------------------------------------------------------------- state
VARIABLES
    heap,             \* reference -> Contact object (the live objects)
    contacts,         \* ContactManager.contacts: array of references
    filteredContacts, \* ContactManager.filteredContacts: array of references
    storage,          \* localStorage item 'contact_management_contacts'
    searchInput,      \* value of the DOM element 'searchInput'
    now,              \* the clock read by new Date()
    nextId,           \* the next identifier generateId returns
    lastQuery,        \* the query most recently passed to searchContacts
    failures,         \* how often the store has refused a write so far
    last,             \* the call that was made last and how it ended
    held,             \* the array a caller got from getAllContacts or
                      \* getFilteredContacts and still holds
    currentEditingId, \* ContactUIManager.currentEditingId (None for null)
    deleteContactId,  \* ContactUIManager.deleteContactId (None for null)
    deleteModal       \* deleteModal.style.display: "none" or "block"

vars == <<heap, contacts, filteredContacts, storage, searchInput, now, nextId,
          lastQuery, failures, last, held, currentEditingId, deleteContactId,
          deleteModal>>

\* The state of the ContactUIManager.
uiVars == <<currentEditingId, deleteContactId, deleteModal>>

\* ------------------------------------------------------------- Contact
\* new Contact(firstName, lastName, email, phone, address, id): the id given,
\* or a generated one; both timestamps are the clock at construction.
ContactNoAddress(data, id, t) ==
    [id |-> id, firstName |-> data.firstName, lastName |-> data.lastName,
     email |-> data.email, phone |-> data.phone, address |-> Undefined,
     createdAt |-> t, updatedAt |-> t]

Contact(data, id, t) ==
    [id |-> id, firstName |-> data.firstName, lastName |-> data.lastName,
     email |-> data.email, phone |-> data.phone, address |-> data.address,
     createdAt |-> t, updatedAt |-> t]

\* generateId: a random part and the time; taken to be fresh.
generateId == nextId

getFullName(c) == trim(c.firstName \o <<" ">> \o c.lastName)

\* Contact.update without the second statement: updatedAt stays.
updateKeepsTimestamp(c, data, t) ==
    [f \in DOMAIN c |-> IF f \in DOMAIN data THEN data[f] ELSE c[f]]

\* Contact.update: Object.assign(this, data), then updatedAt = new Date().
update(c, data, t) ==
    [f \in DOMAIN c |->
        IF f = "updatedAt" THEN t
        ELSE IF f \in DOMAIN data THEN data[f] ELSE c[f]]

\* JSON.stringify of toJSON(): a Date becomes its ISO string, a key whose
\* value is undefined is left out.
toISOString(t) == <<"iso", t>>

toJSON(c) ==
    [id |-> c.id,
     firstName |-> IF c.firstName = Undefined THEN Missing ELSE c.firstName,
     lastName |-> IF c.lastName = Undefined THEN Missing ELSE c.lastName,
     email |-> IF c.email = Undefined THEN Missing ELSE c.email,
     phone |-> IF c.phone = Undefined THEN Missing ELSE c.phone,
     address |-> IF c.address = Undefined THEN Missing ELSE c.address,
     createdAt |-> toISOString(c.createdAt),
     updatedAt |-> toISOString(c.updatedAt)]

\* new Date(isoString)
parseDate(s) == s[2]

\* Contact.fromJSON without its two assignments: the timestamps stay what the
\* constructor made them.
fromJSONFreshTimestamps(d) ==
    [id |-> d.id,
     firstName |-> IF d.firstName = Missing THEN Undefined ELSE d.firstName,
     lastName |-> IF d.lastName = Missing THEN Undefined ELSE d.lastName,
     email |-> IF d.email = Missing THEN Undefined ELSE d.email,
     phone |-> IF d.phone = Missing THEN Undefined ELSE d.phone,
     address |-> IF d.address = Missing THEN Undefined ELSE d.address,
     createdAt |-> now,
     updatedAt |-> now]

\* Contact.fromJSON on a parsed object: a missing key reads as undefined.
fromJSON(d) ==
    [id |-> d.id,
     firstName |-> IF d.firstName = Missing THEN Undefined ELSE d.firstName,
     lastName |-> IF d.lastName = Missing THEN Undefined ELSE d.lastName,
     email |-> IF d.email = Missing THEN Undefined ELSE d.email,
     phone |-> IF d.phone = Missing THEN Undefined ELSE d.phone,
     address |-> IF d.address = Missing THEN Undefined ELSE d.address,
     createdAt |-> parseDate(d.createdAt),
     updatedAt |-> parseDate(d.updatedAt)]

\* ------------------------------------------------- LocalStorageManager
\* The store without the item: getItem returns null.
NoItem == [exists |-> FALSE, form |-> "array", json |-> <<>>]

\* Items that save did not write: text that JSON.parse rejects, and the JSON of
\* a value that is not an array (it has no map).
UnreadableItems ==
    { [exists |-> TRUE, form |-> "garbage", json |-> <<>>],
      [exists |-> TRUE, form |-> "notArray", json |-> <<>>] }

\* save that stores the collection without its last record.
savePartial(h, cs) ==
    [exists |-> TRUE, form |-> "array",
     json |-> [i \in 1..(Len(cs) - 1) |-> toJSON(h[cs[i]])]]

\* save: the item as setItem stores it.
save(h, cs) ==
    [exists |-> TRUE, form |-> "array", json |-> [i \in 1..Len(cs) |-> toJSON(h[cs[i]])]]

\* load that returns the stored objects last to first.
loadReversed(item) ==
    IF ~item.exists THEN <<>>
    ELSE IF item.form # "array" THEN <<>>
    ELSE [i \in 1..Len(item.json) |-> fromJSON(item.json[Len(item.json) + 1 - i])]

\* load: no item gives [], an item that makes JSON.parse or parsed.map throw
\* gives [] (the catch block), otherwise one Contact per stored object.
load(item) ==
    IF ~item.exists THEN <<>>
    ELSE IF item.form # "array" THEN <<>>
    ELSE [i \in 1..Len(item.json) |-> fromJSON(item.json[i])]

\* load whose catch block throws again what it caught.
loadRethrows(item) == item.exists /\ item.form # "array"

\* load throws to its caller: never, the whole body is inside try and the
\* catch block returns.
loadThrows(item) == FALSE

\* ------------------------------------------------------ ContactManager
\* find falling back to the first element.
findByIdOrFirst(h, cs, id) ==
    LET hit == {i \in 1..Len(cs) : h[cs[i]].id = id}
    IN  IF hit = {} THEN (IF cs = <<>> THEN None ELSE cs[1])
        ELSE cs[CHOOSE i \in hit : \A j \in hit : i <= j]

findById(h, cs, id) ==
    LET hit == {i \in 1..Len(cs) : h[cs[i]].id = id}
    IN  IF hit = {} THEN None ELSE cs[CHOOSE i \in hit : \A j \in hit : i <= j]

findByEmail(h, cs, email) ==
    LET hit == {i \in 1..Len(cs) : toLowerCase(h[cs[i]].email) = toLowerCase(email)}
    IN  IF hit = {} THEN None ELSE cs[CHOOSE i \in hit : \A j \in hit : i <= j]

\* findIndex whose miss is taken for the last index (splice(-1, 1)).
findIndexOrLast(h, cs, id) ==
    LET hit == {i \in 1..Len(cs) : h[cs[i]].id = id}
    IN  IF hit = {} THEN Len(cs) - 1 ELSE (CHOOSE i \in hit : \A j \in hit : i <= j) - 1

findIndex(h, cs, id) ==
    LET hit == {i \in 1..Len(cs) : h[cs[i]].id = id}
    IN  IF hit = {} THEN -1 ELSE (CHOOSE i \in hit : \A j \in hit : i <= j) - 1

\* The filter without the test of the full name.
MatchesWithoutFullName(c, searchTerm) ==
    \/ includes(toLowerCase(c.firstName), searchTerm)
    \/ includes(toLowerCase(c.lastName), searchTerm)
    \/ includes(toLowerCase(c.email), searchTerm)

\* The predicate of the filter in searchContacts.
Matches(c, searchTerm) ==
    \/ includes(toLowerCase(c.firstName), searchTerm)
    \/ includes(toLowerCase(c.lastName), searchTerm)
    \/ includes(toLowerCase(c.email), searchTerm)
    \/ includes(toLowerCase(getFullName(c)), searchTerm)

\* searchContacts that takes the query as it is written, spaces included.
searchContactsNoTrim(h, cs, query) ==
    IF query = <<>> THEN cs
    ELSE LET searchTerm == toLowerCase(query)
             keep(r) == Matches(h[r], searchTerm)
         IN  SelectSeq(cs, keep)

\* searchContacts: the new filtered view (which is also what it returns).
searchContacts(h, cs, query) ==
    IF trim(query) = <<>> THEN cs
    ELSE LET searchTerm == trim(toLowerCase(query))
             keep(r) == Matches(h[r], searchTerm)
         IN  SelectSeq(cs, keep)

\* applyCurrentFilter that shows every record whatever the search box holds.
applyCurrentFilterShowsAll(h, cs, input) == cs

\* applyCurrentFilter: the filter is the value of the search box.
applyCurrentFilter(h, cs, input) ==
    IF trim(input) # <<>> THEN searchContacts(h, cs, input) ELSE cs

\* The smallest reference not in use.
NewRef(h) == CHOOSE r \in 1..(Cardinality(DOMAIN h) + 1) : r \notin DOMAIN h

\* Objects no array refers to any more are dropped.
Collect(h, cs, fs) == [r \in (Range(cs) \cup Range(fs) \cup Range(held)) |-> h[r]]

\* A call of a ContactManager method and how it ended: the method, "returned" / "true" / "false" or the
\* error it threw, whether storage.save was called, the id and the data object
\* it was given, the email its target had before it, the reference it returned.
Call(op, outcome, saved, id, data, was, ret) ==
    [op |-> op, outcome |-> outcome, saved |-> saved, id |-> id, data |-> data,
     was |-> was, ret |-> ret]

Init ==
    /\ held = <<>>
    /\ heap = Collect(<<>>, <<>>, <<>>)
    /\ contacts = <<>>
    /\ filteredContacts = <<>>
    /\ storage = NoItem
    /\ searchInput = <<>>
    /\ now = 0
    /\ nextId = 1
    /\ lastQuery = <<>>
    /\ failures = 0
    /\ last = Call("new", "returned", FALSE, None, NoData, Undefined, None)
    /\ currentEditingId = None
    /\ deleteContactId = None
    /\ deleteModal = "none"

\* addContact comparing the emails as they are written.
addContactRejectsExact(h, cs, data) == \E i \in 1..Len(cs) : h[cs[i]].email = data.email

\* addContact looking for the email among the stored records.
addContactRejectsStored(h, cs, data) ==
    \E i \in 1..Len(load(storage)) :
        toLowerCase(load(storage)[i].email) = toLowerCase(data.email)

\* addContact, line 148: the email is already held.
addContactRejects(h, cs, data) == findByEmail(h, cs, data.email) # None

\* addContact(contactData); saveOk: setItem stores the item (or throws).
addContact(data, saveOk) ==
    IF addContactRejects(heap, contacts, data)
    THEN /\ last' = Call("addContact", "DuplicateEmail", FALSE, None, data, Undefined, None)
         /\ UNCHANGED <<held, heap, contacts, filteredContacts, storage, searchInput,
                        now, nextId, lastQuery, failures>>
    ELSE /\ nextId <= MaxIds
         /\ saveOk \/ failures < MaxFailures
         /\ failures' = IF saveOk THEN failures ELSE failures + 1
         /\   LET r  == NewRef(heap)
                  h1 == [x \in DOMAIN heap \cup {r} |->
                            IF x = r THEN Contact(data, generateId, now)
                            ELSE heap[x]]
                  cs == Append(contacts, r)
                  fs == IF saveOk THEN applyCurrentFilter(h1, cs, searchInput)
                        ELSE filteredContacts
              IN  /\ contacts' = cs
                  /\ filteredContacts' = fs
                  /\ heap' = Collect(h1, cs, fs)
                  /\ storage' = IF saveOk THEN save(h1, cs) ELSE storage
                  /\ nextId' = nextId + 1
                  /\ last' = IF saveOk
                             THEN Call("addContact", "returned", TRUE, None, data, Undefined, r)
                             ELSE Call("addContact", "SaveFailed", TRUE, None, data, Undefined, None)
         /\ UNCHANGED <<held, searchInput, now, lastQuery>>

\* addContact called from outside the page: the page's own state stays.
AddContact(data, saveOk) ==
    addContact(data, saveOk) /\ UNCHANGED uiVars

\* updateContact without the test that the holder is another record.
updateContactRejectsSelf(h, cs, id, updateData) ==
    LET contact == h[findById(h, cs, id)]
    IN  /\ "email" \in DOMAIN updateData
        /\ Truthy(updateData.email)
        /\ updateData.email # contact.email
        /\ findByEmail(h, cs, updateData.email) # None

\* updateContact, lines 173-178: the new email is held by another record.
updateContactRejects(h, cs, id, updateData) ==
    LET contact == h[findById(h, cs, id)]
    IN  /\ "email" \in DOMAIN updateData
        /\ Truthy(updateData.email)
        /\ updateData.email # contact.email
        /\ LET existingContact == findByEmail(h, cs, updateData.email)
           IN  existingContact # None /\ h[existingContact].id # id

\* updateContact(id, updateData)
updateContact(id, updateData, saveOk) ==
    LET ref == findById(heap, contacts, id)
    IN  IF ref = None
        THEN /\ last' = Call("updateContact", "NotFound", FALSE, id, updateData, Undefined, None)
             /\ UNCHANGED <<held, heap, contacts, filteredContacts, storage, searchInput,
                            now, nextId, lastQuery, failures>>
        ELSE IF updateContactRejects(heap, contacts, id, updateData)
        THEN /\ last' = Call("updateContact", "DuplicateEmail", FALSE, id, updateData,
                          heap[ref].email, None)
             /\ UNCHANGED <<held, heap, contacts, filteredContacts, storage, searchInput,
                            now, nextId, lastQuery, failures>>
        ELSE /\ saveOk \/ failures < MaxFailures
             /\ failures' = IF saveOk THEN failures ELSE failures + 1
             /\   LET h1 == [heap EXCEPT ![ref] = update(heap[ref], updateData, now)]
                      fs == IF saveOk
                            THEN applyCurrentFilter(h1, contacts, searchInput)
                            ELSE filteredContacts
                  IN  /\ filteredContacts' = fs
                      /\ heap' = Collect(h1, contacts, fs)
                      /\ storage' = IF saveOk THEN save(h1, contacts) ELSE storage
                      /\ last' = IF saveOk
                                 THEN Call("updateContact", "returned", TRUE, id, updateData,
                                           heap[ref].email, ref)
                                 ELSE Call("updateContact", "SaveFailed", TRUE, id, updateData,
                                           heap[ref].email, None)
             /\ UNCHANGED <<held, contacts, searchInput, now, nextId, lastQuery>>

\* updateContact called from outside the page: the page's own state stays.
UpdateContact(id, updateData, saveOk) ==
    updateContact(id, updateData, saveOk) /\ UNCHANGED uiVars

\* contacts.splice(index): everything from index on is removed.
spliceToEnd(cs, index) == SubSeq(cs, 1, index)

\* contacts.splice(index, 0): nothing is removed.
spliceNothing(cs, index) == cs

\* contacts.splice(index, 1), index counted from 0
splice(cs, index) == SubSeq(cs, 1, index) \o SubSeq(cs, index + 2, Len(cs))

\* deleteContact(id)
deleteContact(id, saveOk) ==
    LET index == findIndex(heap, contacts, id)
    IN  IF index = -1
        THEN /\ last' = Call("deleteContact", "false", FALSE, id, NoData, Undefined, None)
             /\ UNCHANGED <<held, heap, contacts, filteredContacts, storage, searchInput,
                            now, nextId, lastQuery, failures>>
        ELSE LET cs == splice(contacts, index)
                 fs == IF saveOk THEN applyCurrentFilter(heap, cs, searchInput)
                       ELSE filteredContacts
             IN  /\ saveOk \/ failures < MaxFailures
                 /\ failures' = IF saveOk THEN failures ELSE failures + 1
                 /\ contacts' = cs
                 /\ filteredContacts' = fs
                 /\ heap' = Collect(heap, cs, fs)
                 /\ storage' = IF saveOk THEN save(heap, cs) ELSE storage
                 /\ last' = IF saveOk
                            THEN Call("deleteContact", "true", TRUE, id, NoData, Undefined, None)
                            ELSE Call("deleteContact", "SaveFailed", TRUE, id, NoData, Undefined, None)
                 /\ UNCHANGED <<held, searchInput, now, nextId, lastQuery>>

\* deleteContact called from outside the page: the page's own state stays.
DeleteContact(id, saveOk) ==
    deleteContact(id, saveOk) /\ UNCHANGED uiVars

\* searchContacts(query), called by any user of the exported ContactManager
SearchContacts(query) ==
    LET fs == searchContacts(heap, contacts, query)
    IN  /\ filteredContacts' = fs
        /\ heap' = Collect(heap, contacts, fs)
        /\ lastQuery' = query
        /\ last' = Call("searchContacts", "returned", FALSE, None, NoData, Undefined, None)
        /\ UNCHANGED <<uiVars, held, contacts, storage, searchInput, now, nextId, failures>>

\* clearAllContacts that leaves the filtered view as it is.
ClearAllContactsKeepsView(clearOk) ==
    /\ clearOk \/ failures < MaxFailures
    /\ failures' = IF clearOk THEN failures ELSE failures + 1
    /\ contacts' = <<>>
    /\ heap' = Collect(heap, <<>>, filteredContacts)
    /\ storage' = IF clearOk THEN NoItem ELSE storage
    /\ last' = Call("clearAllContacts", "returned", FALSE, None, NoData, Undefined, None)
    /\ UNCHANGED <<uiVars, held, filteredContacts, searchInput, now, nextId, lastQuery>>

\* clearAllContacts(); clearOk: removeItem removes the item (or throws, which
\* LocalStorageManager.clear swallows).
ClearAllContacts(clearOk) ==
    /\ clearOk \/ failures < MaxFailures
    /\ failures' = IF clearOk THEN failures ELSE failures + 1
    /\ contacts' = <<>>
    /\ filteredContacts' = <<>>
    /\ heap' = Collect(heap, <<>>, <<>>)
    /\ storage' = IF clearOk THEN NoItem ELSE storage
    /\ last' = Call("clearAllContacts", "returned", FALSE, None, NoData, Undefined, None)
    /\ UNCHANGED <<uiVars, held, searchInput, now, nextId, lastQuery>>

\* new ContactManager(storage): loadContacts builds fresh objects from the item.
Initialize ==
    IF loadThrows(storage)
    THEN /\ last' = Call("new", "LoadFailed", FALSE, None, NoData, Undefined, None)
         /\ UNCHANGED <<uiVars, held, heap, contacts, filteredContacts, storage, searchInput,
                        now, nextId, lastQuery, failures>>
    ELSE LET loaded == load(storage)
             cs == [i \in 1..Len(loaded) |-> i]
         IN  /\ contacts' = cs
             /\ filteredContacts' = cs
             /\ heap' = [r \in 1..Len(loaded) |-> loaded[r]]
             /\ lastQuery' = <<>>
             /\ last' = Call("new", "returned", FALSE, None, NoData, Undefined, None)
             /\ held' = <<>>
             /\ currentEditingId' = None
             /\ deleteContactId' = None
             /\ deleteModal' = "none"
             /\ UNCHANGED <<storage, searchInput, now, nextId, failures>>

\* getContactCount
getContactCount(cs) == Len(cs)

\* getFilteredContactCount that counts the canonical collection.
getFilteredContactCountOfAll(fs) == Len(contacts)

\* getFilteredContactCount
getFilteredContactCount(fs) == Len(fs)

\* getContactCount(): the number is what the call returns.
GetContactCount ==
    /\ last' = Call("getContactCount", "returned", FALSE, None, NoData, Undefined,
                    getContactCount(contacts))
    /\ UNCHANGED <<uiVars, heap, contacts, filteredContacts, storage, searchInput, now, nextId,
                   lastQuery, failures, held>>

\* getFilteredContactCount()
GetFilteredContactCount ==
    /\ last' = Call("getFilteredContactCount", "returned", FALSE, None, NoData, Undefined,
                    getFilteredContactCount(filteredContacts))
    /\ UNCHANGED <<uiVars, heap, contacts, filteredContacts, storage, searchInput, now, nextId,
                   lastQuery, failures, held>>

\* findById(id): the object found, or undefined.
FindById(id) ==
    /\ last' = Call("findById", "returned", FALSE, id, NoData, Undefined,
                    findById(heap, contacts, id))
    /\ UNCHANGED <<uiVars, heap, contacts, filteredContacts, storage, searchInput, now, nextId,
                   lastQuery, failures, held>>

\* findByEmail(email): the object found, or undefined.
FindByEmail(email) ==
    /\ last' = Call("findByEmail", "returned", FALSE, None, [email |-> email], Undefined,
                    findByEmail(heap, contacts, email))
    /\ UNCHANGED <<uiVars, heap, contacts, filteredContacts, storage, searchInput, now, nextId,
                   lastQuery, failures, held>>

\* getAllContacts(): a new array with the elements of contacts, which the
\* caller keeps.
GetAllContacts ==
    /\ held' = contacts
    /\ heap' = [r \in (Range(contacts) \cup Range(filteredContacts)) |-> heap[r]]
    /\ last' = Call("getAllContacts", "returned", FALSE, None, NoData, Undefined, None)
    /\ UNCHANGED <<uiVars, contacts, filteredContacts, storage, searchInput, now, nextId,
                   lastQuery, failures>>

\* getFilteredContacts(): a new array with the elements of filteredContacts.
GetFilteredContacts ==
    /\ held' = filteredContacts
    /\ heap' = [r \in (Range(contacts) \cup Range(filteredContacts)) |-> heap[r]]
    /\ last' = Call("getFilteredContacts", "returned", FALSE, None, NoData, Undefined, None)
    /\ UNCHANGED <<uiVars, contacts, filteredContacts, storage, searchInput, now, nextId,
                   lastQuery, failures>>

\* The caller changes the array it holds: push of an element, shift, reverse.
CallerChangesArray ==
    /\ held # <<>>
    /\ \/ Len(held) <= Len(contacts) /\ held' = Append(held, held[1])
       \/ held' = Tail(held)
       \/ Len(held) >= 2 /\ held' = [i \in 1..Len(held) |-> held[Len(held) + 1 - i]]
    /\ heap' = [r \in (Range(contacts) \cup Range(filteredContacts) \cup Range(held')) |->
                   heap[r]]
    /\ UNCHANGED <<uiVars, contacts, filteredContacts, storage, searchInput, now, nextId,
                   lastQuery, failures, last>>

\* The caller assigns the email of an element of the array it holds; the
\* element is the Contact object itself.
CallerWritesElement(i, email) ==
    /\ i \in 1..Len(held)
    /\ heap[held[i]].email # email
    /\ heap' = [heap EXCEPT ![held[i]].email = email]
    /\ UNCHANGED <<uiVars, contacts, filteredContacts, storage, searchInput, now, nextId,
                   lastQuery, failures, last, held>>

\* The caller of searchContacts changes the array it was given (push of an
\* element, shift, reverse). searchContacts returns this.filteredContacts
\* itself, and as long as no later call has assigned a new array to the
\* field (here: searchContacts is the call made last) the array changed is the
\* manager's.
CallerChangesSearchResult ==
    /\ last.op = "searchContacts"
    /\ filteredContacts # <<>>
    /\ \/ /\ Len(filteredContacts) <= Len(contacts)
          /\ filteredContacts' = Append(filteredContacts, filteredContacts[1])
       \/ filteredContacts' = Tail(filteredContacts)
       \/ /\ Len(filteredContacts) >= 2
          /\ filteredContacts' = [i \in 1..Len(filteredContacts) |->
                                     filteredContacts[Len(filteredContacts) + 1 - i]]
    /\ heap' = Collect(heap, contacts, filteredContacts')
    /\ UNCHANGED <<uiVars, contacts, storage, searchInput, now, nextId, lastQuery, failures,
                   last, held>>

\* Something other than save rewrites the item so that entry i of the stored
\* array has no firstName key.
EntryDamaged(i) ==
    /\ storage.exists
    /\ storage.form = "array"
    /\ i \in 1..Len(storage.json)
    /\ storage.json[i].firstName # Missing
    /\ storage' = [storage EXCEPT !.json[i].firstName = Missing]
    /\ UNCHANGED <<uiVars, heap, contacts, filteredContacts, searchInput, now, nextId,
                   lastQuery, failures, last, held>>

\* Something other than save rewrites the item so that the stored array has a
\* null among its entries: fromJSON(null) throws.
EntryNulled ==
    /\ storage.exists
    /\ storage.form = "array"
    /\ storage.json # <<>>
    /\ storage' = [storage EXCEPT !.form = "nullEntry"]
    /\ UNCHANGED <<uiVars, heap, contacts, filteredContacts, searchInput, now, nextId,
                   lastQuery, failures, last, held>>

\* Math.random() and Date.now() are about to give what they gave at an earlier
\* call of generateId: the next identifier is one handed out before.
GeneratorRepeats ==
    /\ nextId > 1
    /\ nextId' = nextId - 1
    /\ UNCHANGED <<uiVars, heap, contacts, filteredContacts, storage, searchInput, now,
                   lastQuery, failures, last, held>>

\* Something other than save changes the item: it is removed from the store or
\* replaced by text that load cannot read.
StoreTampered(item) ==
    /\ storage # item
    /\ storage' = item
    /\ UNCHANGED <<uiVars, held, heap, contacts, filteredContacts, searchInput, now, nextId,
                   lastQuery, failures, last>>

\* ContactUIManager.handleSearch: the user has typed query into the search box.
HandleSearch(query) ==
    LET fs == searchContacts(heap, contacts, query)
    IN  /\ searchInput' = query
        /\ filteredContacts' = fs
        /\ heap' = Collect(heap, contacts, fs)
        /\ lastQuery' = query
        /\ last' = Call("searchContacts", "returned", FALSE, None, NoData, Undefined, None)
        /\ UNCHANGED <<uiVars, held, contacts, storage, now, nextId, failures>>

\* ContactUIManager.handleClearSearch
HandleClearSearch ==
    LET fs == searchContacts(heap, contacts, <<>>)
    IN  /\ searchInput' = <<>>
        /\ filteredContacts' = fs
        /\ heap' = Collect(heap, contacts, fs)
        /\ lastQuery' = <<>>
        /\ last' = Call("searchContacts", "returned", FALSE, None, NoData, Undefined, None)
        /\ UNCHANGED <<uiVars, held, contacts, storage, now, nextId, failures>>

\* renderContacts: one card with an edit and a delete button per record of
\* getFilteredContacts(), each carrying the record's id in data-id.
CardIds == { heap[filteredContacts[i]].id : i \in 1..Len(filteredContacts) }

\* ContactUIManager.handleFormSubmit: update in edit mode, add otherwise;
\* resetForm runs only when the manager's call returned.
HandleFormSubmit(data, saveOk) ==
    /\ IF currentEditingId # None
       THEN updateContact(currentEditingId, data, saveOk)
       ELSE addContact(data, saveOk)
    /\ currentEditingId' = IF last'.outcome = "returned" THEN None ELSE currentEditingId
    /\ UNCHANGED <<deleteContactId, deleteModal>>

\* ContactUIManager.handleCancel: resetForm
HandleCancel ==
    /\ currentEditingId' = None
    /\ UNCHANGED <<deleteContactId, deleteModal, heap, contacts, filteredContacts, storage,
                   searchInput, now, nextId, lastQuery, failures, last, held>>

\* ContactUIManager.handleEditContact(id): the click on a card's edit button.
HandleEditContact(id) ==
    LET contact == findById(heap, contacts, id)
    IN  /\ id \in CardIds
        /\ currentEditingId' = IF contact = None THEN currentEditingId ELSE id
        /\ last' = Call("findById", "returned", FALSE, id, NoData, Undefined, contact)
        /\ UNCHANGED <<deleteContactId, deleteModal, heap, contacts, filteredContacts,
                       storage, searchInput, now, nextId, lastQuery, failures, held>>

\* ContactUIManager.handleDeleteContact(id): the click on a card's delete button.
HandleDeleteContact(id) ==
    /\ id \in CardIds
    /\ deleteContactId' = id
    /\ deleteModal' = "block"
    /\ UNCHANGED <<currentEditingId, heap, contacts, filteredContacts, storage, searchInput,
                   now, nextId, lastQuery, failures, last, held>>

\* ContactUIManager.handleConfirmDelete: deleteContact, then handleCancelDelete;
\* when deleteContact throws, the rest of the handler does not run.
HandleConfirmDelete(saveOk) ==
    IF deleteContactId # None
    THEN /\ deleteContact(deleteContactId, saveOk)
         /\ deleteModal' = IF last'.outcome = "SaveFailed" THEN deleteModal ELSE "none"
         /\ deleteContactId' = IF last'.outcome = "SaveFailed" THEN deleteContactId ELSE None
         /\ UNCHANGED currentEditingId
    ELSE /\ deleteModal' = "none"
         /\ deleteContactId' = None
         /\ UNCHANGED <<currentEditingId, heap, contacts, filteredContacts, storage,
                        searchInput, now, nextId, lastQuery, failures, last, held>>

\* ContactUIManager.handleCancelDelete: the cancel button of the modal, or a
\* click on the modal's backdrop.
HandleCancelDelete ==
    /\ deleteModal' = "none"
    /\ deleteContactId' = None
    /\ UNCHANGED <<currentEditingId, heap, contacts, filteredContacts, storage, searchInput,
                   now, nextId, lastQuery, failures, last, held>>

\* A millisecond passes.
Tick ==
    /\ now < MaxTime
    /\ now' = now + 1
    /\ UNCHANGED <<uiVars, held, heap, contacts, filteredContacts, storage, searchInput, nextId,
                   lastQuery, failures, last>>

\* The calls of a page whose store accepts every write, within one millisecond.
Next ==
    \/ \E data \in AddInputs : AddContact(data, TRUE)
    \/ \E id \in Ids, updateData \in UpdateInputs : UpdateContact(id, updateData, TRUE)
    \/ \E id \in Ids : DeleteContact(id, TRUE)
    \/ \E query \in Queries : SearchContacts(query)
    \/ ClearAllContacts(TRUE)
    \/ Initialize
    \/ \E query \in Queries : HandleSearch(query)
    \/ HandleClearSearch

Spec == Init /\ [][Next]_vars

\* The same calls, with a store that may refuse a write.
StoreRefuses ==
    \/ \E data \in AddInputs : AddContact(data, FALSE)
    \/ \E id \in Ids, updateData \in UpdateInputs : UpdateContact(id, updateData, FALSE)
    \/ \E id \in Ids : DeleteContact(id, FALSE)
    \/ ClearAllContacts(FALSE)

NextStore == Next \/ StoreRefuses

SpecStore == Init /\ [][NextStore]_vars

\* The same calls, with the clock running.
NextClock == Next \/ Tick

SpecClock == Init /\ [][NextClock]_vars

\* The calls that write to the store, each with a store that accepts or
\* refuses the write, and the construction of a manager on what is stored.
NextSave ==
    \/ \E data \in AddInputs, saveOk \in BOOLEAN : AddContact(data, saveOk)
    \/ \E id \in Ids, updateData \in UpdateInputs, saveOk \in BOOLEAN :
          UpdateContact(id, updateData, saveOk)
    \/ \E id \in Ids, saveOk \in BOOLEAN : DeleteContact(id, saveOk)
    \/ \E clearOk \in BOOLEAN : ClearAllContacts(clearOk)
    \/ Initialize

SpecSave == Init /\ [][NextSave]_vars

\* The calls that build, change and rebuild records, with the clock running.
NextTime ==
    \/ \E data \in AddInputs : AddContact(data, TRUE)
    \/ \E id \in Ids, updateData \in UpdateInputs : UpdateContact(id, updateData, TRUE)
    \/ \E id \in Ids : DeleteContact(id, TRUE)
    \/ Initialize
    \/ Tick

SpecTime == Init /\ [][NextTime]_vars

\* Adds and updates with partial objects of several shapes, the clock running.
NextUpdate ==
    \/ \E data \in AddInputs : AddContact(data, TRUE)
    \/ \E id \in Ids, updateData \in PartialInputs : UpdateContact(id, updateData, TRUE)
    \/ Tick

SpecUpdate == Init /\ [][NextUpdate]_vars

\* The calls that change the collection, and searches whose query is padded.
NextSearch ==
    \/ \E data \in AddInputs : AddContact(data, TRUE)
    \/ \E id \in Ids, updateData \in UpdateInputs : UpdateContact(id, updateData, TRUE)
    \/ \E id \in Ids : DeleteContact(id, TRUE)
    \/ \E query \in PaddedQueries : SearchContacts(query)

SpecSearch == Init /\ [][NextSearch]_vars

\* The calls that write to the store, the construction of a manager on what
\* is stored, and a store whose item is lost or damaged in between.
NextLoad ==
    \/ \E data \in AddInputs : AddContact(data, TRUE)
    \/ \E id \in Ids, updateData \in UpdateInputs : UpdateContact(id, updateData, TRUE)
    \/ \E id \in Ids : DeleteContact(id, TRUE)
    \/ Initialize
    \/ \E item \in UnreadableItems \cup {NoItem} : StoreTampered(item)

SpecLoad == Init /\ [][NextLoad]_vars

\* Adds, deletes and searches with a generator that may repeat itself.
NextIds ==
    \/ \E data \in AddInputs : AddContact(data, TRUE)
    \/ \E id \in Ids : DeleteContact(id, TRUE)
    \/ \E query \in Queries : SearchContacts(query)
    \/ GeneratorRepeats

SpecIds == Init /\ [][NextIds]_vars

\* The read operations of the manager.
ReadStep ==
    \/ GetContactCount
    \/ GetFilteredContactCount
    \/ \E id \in Ids : FindById(id)
    \/ \E data \in AddInputs : FindByEmail(data.email)
    \/ GetAllContacts
    \/ GetFilteredContacts

\* Adds, deletes and searches, with reads in between.
NextRead ==
    \/ \E data \in AddInputs : AddContact(data, TRUE)
    \/ \E id \in Ids : DeleteContact(id, TRUE)
    \/ \E query \in PaddedQueries : SearchContacts(query)
    \/ ReadStep

SpecRead == Init /\ [][NextRead]_vars

\* The calls of the example session, in any order and any number of times.
NextSession ==
    \/ \E data \in {Ada, Al} : AddContact(data, TRUE)
    \/ \E query \in {QueryTuring, QueryAda} : SearchContacts(query)
    \/ \E id \in Ids : DeleteContact(id, TRUE)

SpecSession == Init /\ [][NextSession]_vars

\* Adds and deletes, construction of a manager on what is stored, and a store
\* whose entries are damaged in between.
NextMalformed ==
    \/ \E data \in AddInputs : AddContact(data, TRUE)
    \/ \E id \in Ids : DeleteContact(id, TRUE)
    \/ Initialize
    \/ \E i \in 1..MaxIds : EntryDamaged(i)
    \/ EntryNulled

SpecMalformed == Init /\ [][NextMalformed]_vars

\* Adds, deletes and searches, a caller that changes the array a search
\* returned, and reads of the filtered view.
NextAlias ==
    \/ \E data \in AddInputs : AddContact(data, TRUE)
    \/ \E id \in Ids : DeleteContact(id, TRUE)
    \/ \E query \in PaddedQueries : SearchContacts(query)
    \/ CallerChangesSearchResult
    \/ GetFilteredContacts
    \/ GetFilteredContactCount

SpecAlias == Init /\ [][NextAlias]_vars

\* The caller's side of the two getters: what it does with the array it got.
CallerStep ==
    \/ CallerChangesArray
    \/ \E i \in 1..MaxIds, data \in AddInputs : CallerWritesElement(i, data.email)

\* Adds, deletes and searches, and a caller that gets the arrays and changes
\* what it got.
NextCaller ==
    \/ \E data \in AddInputs : AddContact(data, TRUE)
    \/ \E id \in Ids : DeleteContact(id, TRUE)
    \/ \E query \in Queries : SearchContacts(query)
    \/ GetAllContacts
    \/ GetFilteredContacts
    \/ CallerStep

SpecCaller == Init /\ [][NextCaller]_vars

\* What is typed into the search box of the page.
TypedQueries == { <<>>, <<" ">>, <<"A">>, <<" ", "b">> }

\* The events of the page, with a store that accepts every write.
NextUi ==
    \/ \E data \in AddInputs : HandleFormSubmit(data, TRUE)
    \/ HandleCancel
    \/ \E query \in TypedQueries : HandleSearch(query)
    \/ HandleClearSearch
    \/ \E id \in Ids : HandleEditContact(id)
    \/ \E id \in Ids : HandleDeleteContact(id)
    \/ HandleConfirmDelete(TRUE)
    \/ HandleCancelDelete

SpecUi == Init /\ [][NextUi]_vars

\* The events of the page, with a store that may refuse a write.
NextUiStore ==
    \/ \E data \in AddInputs, saveOk \in BOOLEAN : HandleFormSubmit(data, saveOk)
    \/ HandleCancel
    \/ HandleClearSearch
    \/ \E id \in Ids : HandleEditContact(id)
    \/ \E id \in Ids : HandleDeleteContact(id)
    \/ \E saveOk \in BOOLEAN : HandleConfirmDelete(saveOk)
    \/ HandleCancelDelete

SpecUiStore == Init /\ [][NextUiStore]_vars

\* ------------------------------------------------------------ properties
\* The records of the canonical collection, in order.
Records(h, cs) == [i \in 1..Len(cs) |-> h[cs[i]]]

\* Some record of the canonical collection holds the email, letter case aside.
EmailHeld(email) ==
    \E i \in 1..Len(contacts) : toLowerCase(heap[contacts[i]].email) = toLowerCase(email)

\* Some record of the canonical collection has the id.
IdHeld(id) == \E i \in 1..Len(contacts) : heap[contacts[i]].id = id

\* The record contains the query in its first name, last name, email or full
\* name, letter case aside.
ContainsQuery(c, q) ==
    \/ includes(toLowerCase(c.firstName), toLowerCase(q))
    \/ includes(toLowerCase(c.lastName), toLowerCase(q))
    \/ includes(toLowerCase(c.email), toLowerCase(q))
    \/ includes(toLowerCase(trim(c.firstName \o <<" ">> \o c.lastName)), toLowerCase(q))

\* The canonical collection restricted to the records that contain the query;
\* the whole collection for an empty or whitespace-only query.
Restricted(q) ==
    LET keep(r) == ContainsQuery(heap[r], q)
    IN  IF \A i \in 1..Len(q) : q[i] = " " THEN contacts ELSE SelectSeq(contacts, keep)

\* C1: no two distinct records of the canonical collection have emails that
\* are equal when compared case-insensitively.
EmailUniqueness ==
    \A i, j \in 1..Len(contacts) :
        i # j => toLowerCase(heap[contacts[i]].email) # toLowerCase(heap[contacts[j]].email)

\* C2: after every add, update, delete and search that returned, the filtered
\* view is the canonical collection restricted by the query most recently
\* passed to search (the whole collection if that query is blank).
FilteredViewFollowsLastQuery ==
    (/\ last.op \in {"addContact", "updateContact", "deleteContact", "searchContacts"}
     /\ last.outcome \in {"returned", "true", "false"})
    => filteredContacts = Restricted(lastQuery)

\* C3: an add whose email is held by a record, letter case aside, fails with
\* the duplicate-email error, adds nothing, leaves the canonical collection,
\* the records and the filtered view as they were and does not call save.
AddDuplicateRejected ==
    [][\A data \in AddInputs, saveOk \in BOOLEAN :
          (last'.op = "addContact" /\ EmailHeld(data.email) /\ AddContact(data, saveOk))
          => /\ last'.outcome = "DuplicateEmail"
             /\ ~last'.saved
             /\ UNCHANGED <<heap, contacts, filteredContacts, storage>>]_vars

AddDuplicateRejectedWitness ==
    /\ last.op = "addContact"
    /\ last.outcome = "DuplicateEmail"
    /\ \E i \in 1..Len(contacts) :
          /\ heap[contacts[i]].email # last.data.email
          /\ toLowerCase(heap[contacts[i]].email) = toLowerCase(last.data.email)

\* C4: an update whose partial carries an email (the empty string included)
\* other than the target's, held by another record letter case aside, fails
\* with the duplicate-email error and changes nothing and does not call save.
UpdateDuplicateRejected ==
    [][\A id \in Ids, updateData \in UpdateInputs, saveOk \in BOOLEAN :
          (/\ last'.op = "updateContact"
           /\ IdHeld(id)
           /\ "email" \in DOMAIN updateData
           /\ \E i \in 1..Len(contacts) :
                 /\ heap[contacts[i]].id = id
                 /\ heap[contacts[i]].email # updateData.email
           /\ \E i \in 1..Len(contacts) :
                 /\ heap[contacts[i]].id # id
                 /\ toLowerCase(heap[contacts[i]].email) = toLowerCase(updateData.email)
           /\ UpdateContact(id, updateData, saveOk))
          => /\ last'.outcome = "DuplicateEmail"
             /\ ~last'.saved
             /\ UNCHANGED <<heap, contacts, filteredContacts, storage>>]_vars

\* C5: an update of a record to a case variant of its own email, which no other
\* record holds, returns, and the record then has the new email.
UpdateOwnCaseVariantSucceeds ==
    [][\A id \in Ids, updateData \in UpdateInputs :
          (/\ last'.op = "updateContact"
           /\ "email" \in DOMAIN updateData
           /\ \E i \in 1..Len(contacts) :
                 /\ heap[contacts[i]].id = id
                 /\ heap[contacts[i]].email # updateData.email
                 /\ toLowerCase(heap[contacts[i]].email) = toLowerCase(updateData.email)
           /\ \A i \in 1..Len(contacts) :
                 heap[contacts[i]].id # id
                 => toLowerCase(heap[contacts[i]].email) # toLowerCase(updateData.email)
           /\ UpdateContact(id, updateData, TRUE))
          => /\ last'.outcome = "returned"
             /\ \A i \in 1..Len(contacts') :
                   heap'[contacts'[i]].id = id
                   => heap'[contacts'[i]].email = updateData.email]_vars

UpdateOwnCaseVariantWitness ==
    /\ last.op = "updateContact"
    /\ last.outcome = "returned"
    /\ last.was # last.data.email
    /\ toLowerCase(last.was) = toLowerCase(last.data.email)
    /\ heap[last.ret].email = last.data.email
    /\ Len(contacts) >= 2

\* C6: an update with an id no record has fails with the not-found error and
\* leaves the canonical collection, the records, the filtered view and the
\* store as they were, without a call of save.
UpdateUnknownIdNotFound ==
    [][\A id \in Ids, updateData \in UpdateInputs, saveOk \in BOOLEAN :
          (last'.op = "updateContact" /\ ~IdHeld(id) /\ UpdateContact(id, updateData, saveOk))
          => /\ last'.outcome = "NotFound"
             /\ ~last'.saved
             /\ UNCHANGED <<heap, contacts, filteredContacts, storage>>]_vars

UpdateUnknownIdWitness ==
    /\ last.op = "updateContact"
    /\ last.outcome = "NotFound"
    /\ ~IdHeld(last.id)
    /\ contacts # <<>>

\* C7: a delete with an id no record has returns false and leaves the
\* canonical collection, the filtered view and the store as they were,
\* without a call of save, whatever the query.
DeleteUnknownIdReturnsFalse ==
    [][\A id \in Ids, saveOk \in BOOLEAN :
          (last'.op = "deleteContact" /\ ~IdHeld(id) /\ DeleteContact(id, saveOk))
          => /\ last'.outcome = "false"
             /\ ~last'.saved
             /\ UNCHANGED <<heap, contacts, filteredContacts, storage>>]_vars

DeleteUnknownIdWitness ==
    /\ last.op = "deleteContact"
    /\ last.outcome = "false"
    /\ ~IdHeld(last.id)
    /\ contacts # <<>>
    /\ trim(searchInput) # <<>>
    /\ trim(lastQuery) # <<>>

\* C8: a delete with the id of a record, the save succeeding, returns true;
\* findById(id) is then absent, the count is one less, every other record is
\* still there with its fields, the store holds the new collection and the
\* deleted record is not in the filtered view.
DeleteRemovesExactlyTheRecord ==
    [][\A id \in Ids :
          (last'.op = "deleteContact" /\ IdHeld(id) /\ DeleteContact(id, TRUE))
          => /\ last'.outcome = "true"
             /\ findById(heap', contacts', id) = None
             /\ Len(contacts') = Len(contacts) - 1
             /\ \A r \in Range(contacts) :
                   heap[r].id # id => (r \in Range(contacts') /\ heap'[r] = heap[r])
             /\ storage'.exists
             /\ load(storage') = Records(heap', contacts')
             /\ \A r \in Range(contacts) :
                   heap[r].id = id => r \notin Range(filteredContacts')]_vars

DeleteRemovesWitness ==
    /\ last.op = "deleteContact"
    /\ last.outcome = "true"
    /\ ~IdHeld(last.id)
    /\ contacts # <<>>
    /\ filteredContacts # <<>>

\* C9: an add whose email no record holds, the save succeeding, appends one
\* new record at the end of the canonical collection, stores the whole
\* collection and returns the record; findById of its id then gives a record
\* with the first name, last name, email, phone and address that were passed.
AddAppendsAndReturnsTheRecord ==
    [][\A data \in AddInputs :
          (last'.op = "addContact" /\ ~EmailHeld(data.email) /\ AddContact(data, TRUE))
          => /\ last'.outcome = "returned"
             /\ last'.ret \notin Range(contacts)
             /\ contacts' = Append(contacts, last'.ret)
             /\ \A r \in Range(contacts) : heap'[r] = heap[r]
             /\ storage'.exists
             /\ load(storage') = Records(heap', contacts')
             /\ LET found == findById(heap', contacts', heap'[last'.ret].id)
                IN  /\ found # None
                    /\ heap'[found].firstName = data.firstName
                    /\ heap'[found].lastName = data.lastName
                    /\ heap'[found].email = data.email
                    /\ heap'[found].phone = data.phone
                    /\ heap'[found].address = data.address]_vars

AddAppendsWitness ==
    /\ last.op = "addContact"
    /\ last.outcome = "returned"
    /\ Len(contacts) >= 2
    /\ contacts[Len(contacts)] = last.ret
    /\ heap[last.ret].address # Undefined

\* C10: after a search with a non-blank query followed by an add that
\* returned, the new record is in the filtered view exactly if it contains
\* the query, and the filtered view is the canonical collection, in its
\* order, restricted to the records that contain the query.
AddReappliesLastQuery ==
    (/\ last.op = "addContact"
     /\ last.outcome = "returned"
     /\ \E i \in 1..Len(lastQuery) : lastQuery[i] # " ")
    => /\ (last.ret \in Range(filteredContacts)) = ContainsQuery(heap[last.ret], lastQuery)
       /\ filteredContacts = Restricted(lastQuery)

\* C11: in every state between operations, the store being free to accept or
\* refuse any write, the filtered view is a part of the canonical collection
\* by identity, listed in the canonical order: no more records than the
\* canonical collection has, and no deleted record in it.
FilteredIsPartOfCanonical ==
    LET shown(r) == r \in Range(filteredContacts)
    IN  /\ Range(filteredContacts) \subseteq Range(contacts)
        /\ filteredContacts = SelectSeq(contacts, shown)
        /\ Len(filteredContacts) <= Len(contacts)

\* The string has a character that is not a space.
NotBlank(q) == \E i \in 1..Len(q) : q[i] # " "

\* The records of the canonical collection, in its order, that contain q.
Containing(q) ==
    LET keep(r) == ContainsQuery(heap[r], q)
    IN  SelectSeq(contacts, keep)

\* C12 as stated: a search with a query that is not blank, padded queries
\* included, makes the filtered view exactly the records of the canonical
\* collection, in its order, whose first name, last name, email or full name
\* contains the query, letter case aside.
SearchKeepsRecordsContainingQuery ==
    [][\A query \in PaddedQueries :
          (last'.op = "searchContacts" /\ NotBlank(query) /\ SearchContacts(query))
          => filteredContacts' = Containing(query)]_vars

\* C12: a search with a query that is not blank, padded queries included,
\* makes the filtered view exactly the records of the canonical collection, in
\* its order, whose first name, last name, email or full name contains the
\* query without its leading and trailing whitespace, letter case aside.
SearchKeepsRecordsContainingTrimmedQuery ==
    [][\A query \in PaddedQueries :
          (last'.op = "searchContacts" /\ NotBlank(query) /\ SearchContacts(query))
          => /\ filteredContacts' = Containing(trim(query))
             /\ UNCHANGED contacts]_vars

SearchPaddedQueryWitness ==
    /\ last.op = "searchContacts"
    /\ NotBlank(lastQuery)
    /\ lastQuery # trim(lastQuery)
    /\ filteredContacts # <<>>
    /\ Len(filteredContacts) < Len(contacts)
    /\ \E r \in Range(filteredContacts) :
          /\ ~includes(toLowerCase(heap[r].firstName), toLowerCase(trim(lastQuery)))
          /\ ~includes(toLowerCase(heap[r].lastName), toLowerCase(trim(lastQuery)))
          /\ ~includes(toLowerCase(heap[r].email), toLowerCase(trim(lastQuery)))

\* C13: a search with the empty string or a string of spaces only, whatever
\* the query before it was, makes the filtered view the canonical collection,
\* the same members in the same order.
SearchBlankShowsAll ==
    [][\A query \in PaddedQueries :
          (last'.op = "searchContacts" /\ ~NotBlank(query) /\ SearchContacts(query))
          => /\ filteredContacts' = contacts'
             /\ UNCHANGED contacts]_vars

SearchBlankWitness ==
    /\ last.op = "searchContacts"
    /\ lastQuery = <<" ">>
    /\ Len(contacts) >= 2
    /\ filteredContacts = contacts
    /\ \E r \in Range(contacts) : ~includes(getFullName(heap[r]), <<" ">>)

\* The call made last is an add, update or delete that stored the collection.
LastMutationSaved ==
    /\ last.op \in {"addContact", "updateContact", "deleteContact"}
    /\ last.outcome \in {"returned", "true"}

RefusedSaveKeepsTheChange ==
    [][/\ \A data \in AddInputs :
             (last'.op = "addContact" /\ last'.saved /\ AddContact(data, FALSE))
             => /\ last'.outcome = "SaveFailed"
                /\ storage' = storage
                /\ Len(contacts') = Len(contacts) + 1
                /\ SubSeq(contacts', 1, Len(contacts)) = contacts
                /\ \A r \in Range(contacts) : heap'[r] = heap[r]
                /\ LET c == heap'[contacts'[Len(contacts')]]
                   IN  /\ c.firstName = data.firstName
                       /\ c.lastName = data.lastName
                       /\ c.email = data.email
                       /\ c.phone = data.phone
                       /\ c.address = data.address
       /\ \A id \in Ids, updateData \in UpdateInputs :
             (last'.op = "updateContact" /\ last'.saved /\ UpdateContact(id, updateData, FALSE))
             => /\ last'.outcome = "SaveFailed"
                /\ storage' = storage
                /\ contacts' = contacts
                /\ \A r \in Range(contacts) :
                      heap[r].id = id => \A f \in DOMAIN updateData : heap'[r][f] = updateData[f]
       /\ \A id \in Ids :
             (last'.op = "deleteContact" /\ last'.saved /\ DeleteContact(id, FALSE))
             => /\ last'.outcome = "SaveFailed"
                /\ storage' = storage
                /\ Len(contacts') = Len(contacts) - 1
                /\ \A i \in 1..Len(contacts') : heap'[contacts'[i]].id # id
      ]_vars

RefusedSaveWitness ==
    /\ last.op = "deleteContact"
    /\ last.outcome = "SaveFailed"
    /\ ~IdHeld(last.id)
    /\ contacts # <<>>
    /\ storage.exists
    /\ Len(storage.json) = Len(contacts) + 1
    /\ \E i \in 1..Len(storage.json) : storage.json[i].id = last.id

\* C16: load never throws to its caller: the construction of a manager always
\* completes, and on a store whose item is missing or cannot be read it gives
\* an empty canonical collection and an empty filtered view.
LoadNeverRaises ==
    [][Initialize
       => /\ last'.op = "new"
          /\ last'.outcome = "returned"
          /\ (~storage.exists \/ storage \in UnreadableItems)
             => (contacts' = <<>> /\ filteredContacts' = <<>>)]_vars

LoadUnreadableWitness ==
    /\ last.op = "new"
    /\ last.outcome = "returned"
    /\ storage \in UnreadableItems
    /\ nextId > 1
    /\ contacts = <<>>
    /\ filteredContacts = <<>>

\* C17: clearAllContacts, from any state, empties the canonical collection and
\* the filtered view (both counts become 0) and returns without an error even
\* when the store refuses the removal; when the store does not refuse, it
\* holds no record afterwards.
ClearAllEmptiesEverything ==
    [][\A clearOk \in BOOLEAN :
          (last'.op = "clearAllContacts" /\ ClearAllContacts(clearOk))
          => /\ last'.outcome = "returned"
             /\ Len(contacts') = 0
             /\ Len(filteredContacts') = 0
             /\ DOMAIN heap' = {}
             /\ clearOk => (~storage'.exists /\ load(storage') = <<>>)]_vars

ClearAllRefusedWitness ==
    /\ last.op = "clearAllContacts"
    /\ last.outcome = "returned"
    /\ failures >= 1
    /\ storage.exists
    /\ Len(storage.json) >= 1
    /\ contacts = <<>>
    /\ filteredContacts = <<>>

\* The fields of a record that a partial object may carry.
DataFields == {"firstName", "lastName", "email", "phone", "address"}

\* C18: an update that returned has changed its target in place: the target
\* is the same object at the same position with the same id and createdAt,
\* each field the partial carries has the value given, each field the partial
\* does not carry has its previous value, updatedAt is the current time and
\* not earlier than it was, and no other record has changed.
UpdateInPlace ==
    [][\A id \in Ids, updateData \in PartialInputs :
          (/\ last'.op = "updateContact"
           /\ last'.outcome = "returned"
           /\ UpdateContact(id, updateData, TRUE))
          => /\ contacts' = contacts
             /\ last'.ret \in Range(contacts)
             /\ heap[last'.ret].id = id
             /\ \A r \in Range(contacts) :
                   IF r = last'.ret
                   THEN /\ heap'[r].id = heap[r].id
                        /\ heap'[r].createdAt = heap[r].createdAt
                        /\ \A f \in DataFields :
                              heap'[r][f] = IF f \in DOMAIN updateData THEN updateData[f]
                                            ELSE heap[r][f]
                        /\ heap'[r].updatedAt = now
                        /\ heap'[r].updatedAt >= heap[r].updatedAt
                   ELSE heap'[r] = heap[r]]_vars

UpdateInPlaceWitness ==
    /\ last.op = "updateContact"
    /\ last.outcome = "returned"
    /\ Len(contacts) >= 2
    /\ contacts[Len(contacts)] = last.ret
    /\ "phone" \in DOMAIN last.data
    /\ heap[last.ret].phone = last.data.phone
    /\ heap[last.ret].email # <<>>
    /\ heap[last.ret].updatedAt > heap[last.ret].createdAt

CallerCannotChangeManager ==
    [][CallerStep
       => /\ UNCHANGED <<contacts, filteredContacts>>
          /\ Records(heap', contacts') = Records(heap, contacts)
          /\ Records(heap', filteredContacts') = Records(heap, filteredContacts)]_vars

\* The array alone: adding, removing and reordering
\* elements of the returned array leaves both collections of the manager and
\* their records as they were.
CallerArrayChangesStayOutside ==
    [][CallerChangesArray
       => /\ UNCHANGED <<contacts, filteredContacts>>
          /\ Records(heap', contacts') = Records(heap, contacts)
          /\ Records(heap', filteredContacts') = Records(heap, filteredContacts)]_vars

IdUniqueness ==
    \A i, j \in 1..Len(contacts) :
        i # j => heap[contacts[i]].id # heap[contacts[j]].id

ReadOps ==
    {"getContactCount", "getFilteredContactCount", "findById", "findByEmail",
     "getAllContacts", "getFilteredContacts"}

\* C23: the read operations (the two counts, findById, findByEmail,
\* getAllContacts, getFilteredContacts) leave the canonical collection, the
\* fields of every record, the filtered view and the store as they were and
\* do not call save; the counts are the lengths of the canonical collection
\* and of the filtered view.
ReadsHaveNoSideEffects ==
    [][(last'.op \in ReadOps /\ ReadStep)
       => /\ UNCHANGED <<contacts, filteredContacts, storage>>
          /\ Records(heap', contacts') = Records(heap, contacts)
          /\ Records(heap', filteredContacts') = Records(heap, filteredContacts)
          /\ last'.outcome = "returned"
          /\ ~last'.saved
          /\ last'.op = "getContactCount" => last'.ret = Len(contacts)
          /\ last'.op = "getFilteredContactCount" => last'.ret = Len(filteredContacts)
          /\ last'.op = "findById"
             => \/ last'.ret = None /\ ~IdHeld(last'.id)
                \/ last'.ret \in Range(contacts) /\ heap[last'.ret].id = last'.id
          /\ last'.op = "findByEmail"
             => \/ last'.ret = None /\ ~EmailHeld(last'.data.email)
                \/ /\ last'.ret \in Range(contacts)
                   /\ toLowerCase(heap[last'.ret].email) = toLowerCase(last'.data.email)
          /\ last'.op = "getAllContacts" => held' = contacts
          /\ last'.op = "getFilteredContacts" => held' = filteredContacts]_vars

ReadsWitness ==
    /\ last.op = "getFilteredContactCount"
    /\ last.ret >= 1
    /\ last.ret < Len(contacts)
    /\ storage.exists

\* The directory holds one record, and it is Ada Lovelace's.
OnlyAda ==
    /\ Len(contacts) = 1
    /\ heap[contacts[1]].firstName = Ada.firstName
    /\ heap[contacts[1]].lastName = Ada.lastName
    /\ heap[contacts[1]].email = Ada.email

\* C24: from an empty directory, adding (Ada, Lovelace, ada@x.com) returns and
\* the count is 1; adding (Al, Turing, ADA@X.COM) then fails with the
\* duplicate-email error and the count stays 1; searching "turing" leaves the
\* filtered view empty; searching "ada" leaves exactly the first record in the
\* filtered view; deleting the first record's id returns true, the count is 0
\* and the filtered view is empty.
SessionTrace ==
    [][/\ (last'.op = "addContact" /\ contacts = <<>> /\ AddContact(Ada, TRUE))
          => /\ last'.outcome = "returned"
             /\ getContactCount(contacts') = 1
             /\ OnlyAda'
       /\ (last'.op = "addContact" /\ OnlyAda /\ AddContact(Al, TRUE))
          => /\ last'.outcome = "DuplicateEmail"
             /\ getContactCount(contacts') = 1
             /\ OnlyAda'
       /\ (last'.op = "searchContacts" /\ OnlyAda /\ SearchContacts(QueryTuring))
          => filteredContacts' = <<>> /\ OnlyAda'
       /\ (last'.op = "searchContacts" /\ OnlyAda /\ SearchContacts(QueryAda))
          => filteredContacts' = <<contacts[1]>> /\ OnlyAda'
       /\ \A id \in Ids :
             (/\ last'.op = "deleteContact"
              /\ OnlyAda
              /\ lastQuery = QueryAda
              /\ heap[contacts[1]].id = id
              /\ DeleteContact(id, TRUE))
             => /\ last'.outcome = "true"
                /\ getContactCount(contacts') = 0
                /\ filteredContacts' = <<>>
      ]_vars

SessionTraceWitness ==
    /\ last.op = "deleteContact"
    /\ last.outcome = "true"
    /\ last.id = 1
    /\ lastQuery = QueryAda
    /\ nextId = 2
    /\ contacts = <<>>
    /\ filteredContacts = <<>>
    /\ storage.exists

\* C28: an add whose save the store refused has added its record all the same
\* (the count is one more), and an add with the same email made right after it
\* fails with the duplicate-email error and adds nothing: after both calls the
\* count is one more than before the first, and one record has the email.
AddAfterRefusedSaveIsDuplicate ==
    [][\A data \in AddInputs :
          /\ (/\ last'.op = "addContact"
              /\ last'.outcome = "SaveFailed"
              /\ AddContact(data, FALSE))
             => Len(contacts') = Len(contacts) + 1
          /\ \A saveOk \in BOOLEAN :
                (/\ last.op = "addContact"
                 /\ last.outcome = "SaveFailed"
                 /\ last.data.email = data.email
                 /\ last'.op = "addContact"
                 /\ AddContact(data, saveOk))
                => /\ last'.outcome = "DuplicateEmail"
                   /\ ~last'.saved
                   /\ UNCHANGED <<contacts, filteredContacts, storage>>
                   /\ Cardinality({i \in 1..Len(contacts') :
                                     heap'[contacts'[i]].email = data.email}) = 1
      ]_vars

AddAfterRefusedSaveWitness ==
    /\ last.op = "addContact"
    /\ last.outcome = "DuplicateEmail"
    /\ failures >= 1
    /\ Len(contacts) >= 2
    /\ heap[contacts[Len(contacts)]].email = last.data.email
    /\ Len(load(storage)) = Len(contacts) - 1
    /\ \A i \in 1..Len(load(storage)) : load(storage)[i].email # last.data.email

\* The item is a stored array with a malformed entry: a null, or an object
\* without a firstName, lastName or email.
HasMalformedEntry(item) ==
    /\ item.exists
    /\ \/ item.form = "nullEntry"
       \/ /\ item.form = "array"
          /\ \E i \in 1..Len(item.json) :
                \/ item.json[i].firstName = Missing
                \/ item.json[i].lastName = Missing
                \/ item.json[i].email = Missing

\* C27: when an entry of the stored array is malformed, load fails as a whole:
\* the manager constructed on it has no record, neither a part of the stored
\* collection nor a record built from the malformed entry.
MalformedEntryFailsLoad ==
    [][(last'.op = "new" /\ HasMalformedEntry(storage) /\ Initialize)
       => /\ contacts' = <<>>
          /\ filteredContacts' = <<>>]_vars

\* A null entry does make load fail as a whole.
NullEntryFailsLoad ==
    [][(last'.op = "new" /\ storage.exists /\ storage.form = "nullEntry" /\ Initialize)
       => /\ contacts' = <<>>
          /\ filteredContacts' = <<>>]_vars

\* C29: the array searchContacts returns is not the manager's filtered view:
\* a caller that adds, removes or reorders its elements does not change what
\* getFilteredContacts and getFilteredContactCount report afterwards.
SearchResultIsNotAliased ==
    [][CallerChangesSearchResult
       => /\ UNCHANGED filteredContacts
          /\ getFilteredContactCount(filteredContacts') =
                getFilteredContactCount(filteredContacts)]_vars

\* A click on the confirm button of the delete modal.
ConfirmClicked == \E saveOk \in BOOLEAN : HandleConfirmDelete(saveOk)

\* C25: the page calls deleteContact only from the confirm handler, for the id
\* that was requested last and not cancelled; a cancel calls no delete; after
\* a confirm or a cancel the pending id is null and the modal is hidden.
DeleteOnlyAfterConfirmation ==
    [][ /\ (last'.op = "deleteContact" /\ last' # last) =>
               (ConfirmClicked /\ deleteContactId # None /\ last'.id = deleteContactId)
        /\ HandleCancelDelete => (contacts' = contacts /\ last' = last)
        /\ (ConfirmClicked \/ HandleCancelDelete) =>
               (deleteContactId' = None /\ deleteModal' = "none") ]_vars

\* The filter the page applies: the text of the search box without the spaces
\* around it; every record when nothing is left.
FilteredBy(input) == Restricted(trim(input))

\* C26: driven through the handlers of the page with every save succeeding, the
\* filtered view is the canonical collection filtered by the value of the
\* search box, and the whole collection when that value is blank.
FilteredViewFollowsSearchInput == filteredContacts = FilteredBy(searchInput)

\* A form submit added a second record while the search box held a text that
\* only one of the two records contains.
FilteredViewFollowsSearchInputWitness ==
    /\ last.op = "addContact" /\ last.outcome = "returned"
    /\ NotBlank(searchInput)
    /\ Len(contacts) = 2
    /\ Len(filteredContacts) = 1

\* C30: the id being edited is null or the id of a record of the canonical
\* collection, whatever the order of edit, delete, confirm, cancel and submit.
EditedContactExists == currentEditingId = None \/ IdHeld(currentEditingId)

\* A form submit in edit mode never ends with the not-found error.
EditSubmitFindsContact ==
    [][\A data \in AddInputs :
          (currentEditingId # None /\ HandleFormSubmit(data, TRUE))
              => last'.outcome # "NotFound"]_vars

====
